---- MODULE Spec2Model ----
(***************************************************************************)
(* make_engine_filtered_fft.py: one run of main(), statement by statement. *)
(*                                                                         *)
(* Numbers.  TLC has 32-bit integers only, so the real-valued quantities   *)
(* of the script are held as follows.                                      *)
(*   - a sample buffer is a record [num, den]: sample i has the value      *)
(*     num[i] / den.  Up to the normalizer den = ONE (fixed point, the     *)
(*     spacing of float32 just below full scale); the normalizer's         *)
(*     factor 0.98/peak is kept as an exact fraction, so the normalized    *)
(*     buffer has den = 50 * peak.                                         *)
(*   - a coefficient (twiddle factor, filter gain, fade gain, frequency    *)
(*     in Hz) is fixed point with CS = 1.0.                                *)
(*   - a product sample * coefficient is rounded to the nearest unit, as   *)
(*     a floating-point product is rounded to the nearest representable    *)
(*     value.                                                              *)
(***************************************************************************)
EXTENDS Integers, Sequences, FiniteSets, TLC

\* ------------------------------------------------------------------ bounds
\* Longest input clip, in samples.
MaxLen == 5
\* Largest len(sys.argv) tried (program name included).
MaxArgv == 3

\* int16 sample values the input clips are built from.
SampleValues == {-2, 0, 1}
\* Sample rates of the input clips: fade_len is 0, 1, 2, 3 and 132.
SampleRates == {300, 600, 700, 1200, 44100}

\* --------------------------------------------------------------- constants
\* x = data / 32768.0
FullScale == 32768
\* fixed-point units below one int16 count
SubLsb == 256
ONE == FullScale * SubLsb
\* coefficient 1.0
CS == 1024
\* fc = 300.0
fc == 300
\* n = 4
n == 4
\* int(sr * 0.003) = floor(sr * 3 / 1000)
FadeMilliNum == 3
FadeMilliDen == 1000
\* 0.98 = 49 / 50
TargetNum == 49
TargetDen == 50
\* y * 32767.0
PcmScale == 32767
\* len(sys.argv) < 3
MinArgv == 3

\* -------------------------------------------------------------- arithmetic
Abs(a) == IF a < 0 THEN -a ELSE a

Sign(a) == IF a < 0 THEN -1 ELSE IF a > 0 THEN 1 ELSE 0

\* a / b to the nearest integer (b > 0)
RoundDiv(a, b) == (2 * a + b) \div (2 * b)

\* sample * coefficient, to the nearest unit: round(a * c / CS), computed
\* without forming a * c
MulCoef(a, c) == (a \div CS) * c + ((a % CS) * c + CS \div 2) \div CS

RECURSIVE SumSeq(_)
SumSeq(s) == IF s = <<>> THEN 0 ELSE s[1] + SumSeq(Tail(s))

RECURSIVE MaxSeq(_)
MaxSeq(s) == IF Len(s) = 1 THEN s[1]
             ELSE LET m == MaxSeq(Tail(s)) IN IF s[1] > m THEN s[1] ELSE m

\* -------------------------------------------------------------------- state
VARIABLES
    nargs,        \* len(sys.argv)
    inFile,       \* the input path: kind "missing", "malformed" or "wav" (a clip)
    outFile,      \* the output path: kind "absent", "old" or "written"
    pc,           \* the statement main() is at
    done,         \* the steps main() has completed
    exitCode,     \* the process exit status (-1 while running)
    stdout,       \* the lines printed
    raised,       \* the exception that ended the run ("" if none)
    reads,        \* wavfile.read calls that returned
    writes,       \* wavfile.write calls
    sr, data,     \* sr, data = wavfile.read(input_wav)
    x,            \* the float buffer
    X, freqs,     \* X = rfft(x); freqs = rfftfreq(len(x), 1/sr)
    H,            \* the gain curve
    Y,            \* Y = X * H
    y,            \* y = irfft(Y, n=len(x)), then faded, then normalized
    fade_len, fade_in, fade_out,
    peak,         \* np.max(np.abs(y)), in units of 1/ONE
    output_data,  \* the int16 samples written
    mismatch      \* abs(int(output_data[0]) - int(output_data[-1]))

sys == <<nargs, inFile, outFile, pc, done, exitCode, stdout, raised, reads, writes>>
dsp == <<sr, data, x, X, freqs, H, Y, y, fade_len, fade_in, fade_out, peak,
         output_data, mismatch>>
vars == <<sys, dsp>>

RECURSIVE SeqsUpTo(_, _)
SeqsUpTo(S, k) == IF k = 0 THEN {<<>>}
                  ELSE LET shorter == SeqsUpTo(S, k - 1)
                       IN shorter \cup {Append(s, v) : s \in {t \in shorter : Len(t) = k - 1}, v \in S}

\* The single-channel 16-bit clips the loader can return.
Clips == {[kind |-> "wav", sr |-> r, data |-> d] :
              r \in SampleRates, d \in SeqsUpTo(SampleValues, MaxLen) \ {<<>>}}

\* A path that holds no readable single-channel clip.
NoFile(k) == [kind |-> k, sr |-> 0, data |-> <<>>]

NoBuffer == [num |-> <<>>, den |-> 1]

Init ==
    /\ nargs \in 1..MaxArgv
    /\ inFile \in {NoFile("missing"), NoFile("malformed")} \cup Clips
    /\ outFile \in {NoFile("absent"), NoFile("old")}
    /\ pc = "args"
    /\ done = {}
    /\ exitCode = -1
    /\ stdout = <<>>
    /\ raised = ""
    /\ reads = 0
    /\ writes = 0
    /\ sr = 0
    /\ data = <<>>
    /\ x = NoBuffer
    /\ X = <<>>
    /\ freqs = <<>>
    /\ H = <<>>
    /\ Y = <<>>
    /\ y = NoBuffer
    /\ fade_len = 0
    /\ fade_in = <<>>
    /\ fade_out = <<>>
    /\ peak = 0
    /\ output_data = <<>>
    /\ mismatch = 0

\* An uncaught exception: traceback, exit status 1.
Raise(step, exc) ==
    /\ pc' = "exited"
    /\ exitCode' = 1
    /\ raised' = exc
    /\ done' = done
    /\ stdout' = stdout

Goto(step, next) ==
    /\ pc' = next
    /\ done' = done \cup {step}
    /\ UNCHANGED <<exitCode, raised, stdout>>

\* the argument check with len(sys.argv) < 2
CheckArgsOneShort ==
    /\ pc = "args"
    /\ IF nargs < MinArgv - 1
       THEN /\ stdout' = Append(stdout, "usage")
            /\ exitCode' = 1
            /\ pc' = "exited"
            /\ UNCHANGED <<done, raised>>
       ELSE Goto("args", "read")
    /\ UNCHANGED <<nargs, inFile, outFile, reads, writes, dsp>>

\* lines 9-14
CheckArgs ==
    /\ pc = "args"
    /\ IF nargs < MinArgv
       THEN /\ stdout' = Append(stdout, "usage")
            /\ exitCode' = 1
            /\ pc' = "exited"
            /\ UNCHANGED <<done, raised>>
       ELSE Goto("args", "read")
    /\ UNCHANGED <<nargs, inFile, outFile, reads, writes, dsp>>

\* a loader that answers an unreadable path with one sample of silence
ReadWavOrSilence ==
    /\ pc = "read"
    /\ Goto("read", "convert")
    /\ reads' = reads + 1
    /\ sr' = IF inFile.kind = "wav" THEN inFile.sr ELSE 600
    /\ data' = IF inFile.kind = "wav" THEN inFile.data ELSE <<0>>
    /\ UNCHANGED <<nargs, inFile, outFile, writes, x, X, freqs, H, Y, y,
                   fade_len, fade_in, fade_out, peak, output_data, mismatch>>

\* line 17
ReadWav ==
    /\ pc = "read"
    /\ IF inFile.kind # "wav"
       THEN /\ Raise("read", IF inFile.kind = "missing" THEN "FileNotFoundError" ELSE "ValueError")
            /\ UNCHANGED <<reads, sr, data>>
       ELSE /\ Goto("read", "convert")
            /\ reads' = reads + 1
            /\ sr' = inFile.sr
            /\ data' = inFile.data
    /\ UNCHANGED <<nargs, inFile, outFile, writes, x, X, freqs, H, Y, y,
                   fade_len, fade_in, fade_out, peak, output_data, mismatch>>


SysIdle == UNCHANGED <<nargs, inFile, outFile, reads, writes>>

\* data.astype(np.float32) / 32768.0: an int16 count is SubLsb units of 1/ONE
ToFloat(d) == [num |-> [i \in 1..Len(d) |-> d[i] * SubLsb], den |-> ONE]

\* line 20
ConvertFloat ==
    /\ pc = "convert"
    /\ Goto("convert", "dc")
    /\ x' = ToFloat(data)
    /\ SysIdle
    /\ UNCHANGED <<sr, data, X, freqs, H, Y, y, fade_len, fade_in, fade_out,
                   peak, output_data, mismatch>>

\* np.mean(x): the sum divided by the count, to the nearest unit
Mean(b) == RoundDiv(SumSeq(b.num), Len(b.num))

\* the buffer as it was: the difference computed and dropped
RemoveMeanDropped(b) == b

\* x - np.mean(x)
RemoveMean(b) == [num |-> [i \in 1..Len(b.num) |-> b.num[i] - Mean(b)], den |-> b.den]

\* line 23
RemoveDC ==
    /\ pc = "dc"
    /\ Goto("dc", "fft")
    /\ x' = RemoveMean(x)
    /\ SysIdle
    /\ UNCHANGED <<sr, data, X, freqs, H, Y, y, fade_len, fade_in, fade_out,
                   peak, output_data, mismatch>>

\* cos(2 pi m / N) and sin(2 pi m / N) for m = 0..N-1, N = 1..8, in units
\* of 1/CS
CosTable ==
    << <<1024>>,
       <<1024, -1024>>,
       <<1024, -512, -512>>,
       <<1024, 0, -1024, 0>>,
       <<1024, 316, -828, -828, 316>>,
       <<1024, 512, -512, -1024, -512, 512>>,
       <<1024, 638, -228, -923, -923, -228, 638>>,
       <<1024, 724, 0, -724, -1024, -724, 0, 724>> >>

SinTable ==
    << <<0>>,
       <<0, 0>>,
       <<0, 887, -887>>,
       <<0, 1024, 0, -1024>>,
       <<0, 974, 602, -602, -974>>,
       <<0, 887, 887, 0, -887, -887>>,
       <<0, 801, 998, 444, -444, -998, -801>>,
       <<0, 724, 1024, 724, 0, -724, -1024, -724>> >>

Cos(m, N) == CosTable[N][(m % N) + 1]
Sin(m, N) == SinTable[N][(m % N) + 1]

\* rfft(x): bins k = 0..N/2, X[k] = sum_j x[j] * exp(-2 pi i j k / N);
\* bin k is element k + 1
rfft(b) ==
    LET N == Len(b)
    IN [k1 \in 1..(N \div 2 + 1) |->
           [re |-> SumSeq([j \in 1..N |-> MulCoef(b[j], Cos((j - 1) * (k1 - 1), N))]),
            im |-> -SumSeq([j \in 1..N |-> MulCoef(b[j], Sin((j - 1) * (k1 - 1), N))])]]

\* rfftfreq(N, 1/sr): bin k is at k * sr / N Hz, in units of 1/CS Hz
rfftfreq(N, rate) == [k1 \in 1..(N \div 2 + 1) |-> ((k1 - 1) * rate * CS) \div N]

\* lines 26-27
ForwardFFT ==
    /\ pc = "fft"
    /\ Goto("fft", "curve")
    /\ X' = rfft(x.num)
    /\ freqs' = rfftfreq(Len(x.num), sr)
    /\ SysIdle
    /\ UNCHANGED <<sr, data, x, H, Y, y, fade_len, fade_in, fade_out,
                   peak, output_data, mismatch>>

\* a / b for two coefficients
FixDiv(a, b) == RoundDiv(a * CS, b)

\* b ** e for a coefficient b and an integer e >= 0
RECURSIVE FixPow(_, _)
FixPow(b, e) == IF e = 0 THEN CS ELSE MulCoef(FixPow(b, e - 1), b)

\* floor(sqrt(v)), one bit at a time from bit downwards
RECURSIVE ISqrtBits(_, _, _)
ISqrtBits(v, bit, r) ==
    IF bit = 0 THEN r
    ELSE IF (r + bit) <= v \div (r + bit)
         THEN ISqrtBits(v, bit \div 2, r + bit)
         ELSE ISqrtBits(v, bit \div 2, r)

ISqrt(v) == ISqrtBits(v, 32768, 0)

\* np.sqrt of a coefficient: sqrt(v * CS) = 32 * sqrt(v), with sqrt(v) taken
\* between floor(sqrt(v)) and the next integer in proportion
FixSqrt(v) == LET a == ISqrt(v)
              IN 32 * a + (32 * (v - a * a)) \div (2 * a + 1)

\* the curve with the exponent n in place of 2*n
GainOrderN(f) == FixDiv(CS, FixSqrt(CS + FixPow(FixDiv(fc * CS, f), n)))

\* 1.0 / np.sqrt(1 + (fc / f)**(2*n))
Gain(f) == FixDiv(CS, FixSqrt(CS + FixPow(FixDiv(fc * CS, f), 2 * n)))

\* a curve that starts from np.ones_like(freqs)
CurveFromOnes(f) == [k1 \in 1..Len(f) |-> IF k1 = 1 THEN CS ELSE Gain(f[k1])]

\* H = np.zeros_like(freqs); H[1:] = 1.0 / np.sqrt(1 + (fc / freqs[1:])**(2*n))
Curve(f) == [k1 \in 1..Len(f) |-> IF k1 = 1 THEN 0 ELSE Gain(f[k1])]

\* lines 31-37
BuildCurve ==
    /\ pc = "curve"
    /\ Goto("curve", "attenuate")
    /\ H' = Curve(freqs)
    /\ SysIdle
    /\ UNCHANGED <<sr, data, x, X, freqs, Y, y, fade_len, fade_in, fade_out,
                   peak, output_data, mismatch>>

\* X * H, bin by bin: a real gain scales both parts
Attenuated(S, G) == [k1 \in 1..Len(S) |-> [re |-> MulCoef(S[k1].re, G[k1]),
                                          im |-> MulCoef(S[k1].im, G[k1])]]

\* line 40
Attenuate ==
    /\ pc = "attenuate"
    /\ Goto("attenuate", "ifft")
    /\ Y' = Attenuated(X, H)
    /\ SysIdle
    /\ UNCHANGED <<sr, data, x, X, freqs, H, y, fade_len, fade_in, fade_out,
                   peak, output_data, mismatch>>

\* irfft(S, n=N): the real signal whose half spectrum is S; the bins above
\* N/2 are the conjugates of those below, so bin k with 0 < k < N/2 counts
\* twice, and the imaginary parts of bin 0 and of bin N/2 are ignored
irfft(S, N) ==
    [j \in 1..N |->
        RoundDiv(
            S[1].re
            + SumSeq([k \in 1..((N - 1) \div 2) |->
                         2 * (MulCoef(S[k + 1].re, Cos((j - 1) * k, N))
                              - MulCoef(S[k + 1].im, Sin((j - 1) * k, N)))])
            + (IF N % 2 = 0 THEN MulCoef(S[N \div 2 + 1].re, Cos((j - 1) * (N \div 2), N))
               ELSE 0),
            N)]

\* line 43
InverseFFT ==
    /\ pc = "ifft"
    /\ Goto("ifft", "fade")
    /\ y' = [num |-> irfft(Y, Len(x.num)), den |-> x.den]
    /\ SysIdle
    /\ UNCHANGED <<sr, data, x, X, freqs, H, Y, fade_len, fade_in, fade_out,
                   peak, output_data, mismatch>>

Min(a, b) == IF a < b THEN a ELSE b
Max(a, b) == IF a > b THEN a ELSE b

\* int(sr * 0.003)
FadeLen(rate) == (rate * FadeMilliNum) \div FadeMilliDen

\* np.linspace(start, stop, num, endpoint=False)
linspaceOpen(start, stop, num) ==
    [i \in 1..num |-> start + RoundDiv((i - 1) * (stop - start), num)]

\* np.linspace(start, stop, num): num evenly spaced coefficients, the last
\* one set to stop; a single point is start
linspace(start, stop, num) ==
    IF num = 1 THEN <<start>>
    ELSE [i \in 1..num |-> IF i = num THEN stop
                           ELSE start + RoundDiv((i - 1) * (stop - start), num - 1)]

\* whether an in-place a[lo:hi] *= g is allowed: g has the slice's length, or
\* one element that is repeated
Broadcasts(sliceLen, gainLen) == gainLen = sliceLen \/ gainLen = 1

\* the gains taken from the far end of g: element lo meets the last gain
MulSliceReversed(b, lo, hi, g) ==
    [i \in 1..Len(b) |-> IF lo <= i /\ i <= hi
                         THEN MulCoef(b[i], g[IF Len(g) = 1 THEN 1 ELSE hi - i + 1])
                         ELSE b[i]]

\* elements lo..hi of b multiplied by the gains g
MulSlice(b, lo, hi, g) ==
    [i \in 1..Len(b) |-> IF lo <= i /\ i <= hi
                         THEN MulCoef(b[i], g[IF Len(g) = 1 THEN 1 ELSE i - lo + 1])
                         ELSE b[i]]

\* the first element of the slice y[-F:] of N samples (y[-0:] is all of y)
TailStart(N, F) == IF F = 0 THEN 1 ELSE Max(N - F, 0) + 1

\* the last element of the slice y[:F] of N samples
HeadEnd(N, F) == Min(F, N)

\* lines 46-51
Fade ==
    /\ pc = "fade"
    /\ LET F == FadeLen(sr)
           N == Len(y.num)
           headed == MulSlice(y.num, 1, HeadEnd(N, F), linspace(0, CS, F))
       IN /\ fade_len' = F
          /\ fade_in' = linspace(0, CS, F)
          /\ fade_out' = linspace(CS, 0, F)
          /\ IF ~Broadcasts(HeadEnd(N, F), F)
             THEN /\ Raise("fade", "ValueError")
                  /\ y' = y
             ELSE IF ~Broadcasts(N - TailStart(N, F) + 1, F)
             THEN /\ Raise("fade", "ValueError")
                  /\ y' = [y EXCEPT !.num = headed]
             ELSE /\ Goto("fade", "normalize")
                  /\ y' = [y EXCEPT !.num = MulSlice(headed, TailStart(N, F), N,
                                                    linspace(CS, 0, F))]
    /\ SysIdle
    /\ UNCHANGED <<sr, data, x, X, freqs, H, Y, peak, output_data, mismatch>>

\* np.max(y): the largest sample, not the largest magnitude
PeakNoAbs(b) == MaxSeq(b.num)

\* np.max(np.abs(y)), in units of 1/y.den
Peak(b) == MaxSeq([i \in 1..Len(b.num) |-> Abs(b.num[i])])

\* y * (peak / 0.98) / peak**2: the target divided into the peak, not the
\* peak into the target
ScaledInverted(b, pk) == [num |-> [i \in 1..Len(b.num) |-> TargetDen * b.num[i]],
                          den |-> TargetNum * pk]

\* y * (0.98 / peak): the quotient is kept exact, sample i becomes
\* (num[i] / den) * (0.98 * den / pk) = 49 * num[i] / (50 * pk)
Scaled(b, pk) == [num |-> [i \in 1..Len(b.num) |-> TargetNum * b.num[i]],
                  den |-> TargetDen * pk]

\* if peak > 0: y = y * (0.98 / peak)
Normalized(b, pk) == IF pk > 0 THEN Scaled(b, pk) ELSE b

\* lines 54-56
Normalize ==
    /\ pc = "normalize"
    /\ Goto("normalize", "encode")
    /\ peak' = Peak(y)
    /\ y' = Normalized(y, Peak(y))
    /\ SysIdle
    /\ UNCHANGED <<sr, data, x, X, freqs, H, Y, fade_len, fade_in, fade_out,
                   output_data, mismatch>>

\* <<q, r>> with a * b = q * c + r and 0 <= r < c, for a, b >= 0 and c > 0,
\* by doubling over the bits of b
RECURSIVE MulDivMod(_, _, _)
MulDivMod(a, b, c) ==
    IF b = 0 THEN <<0, 0>>
    ELSE LET h == MulDivMod(a, b \div 2, c)
             q2 == 2 * h[1] + (2 * h[2]) \div c
             r2 == (2 * h[2]) % c
             r3 == r2 + (a % c)
         IN IF b % 2 = 1 THEN <<q2 + a \div c + r3 \div c, r3 % c>> ELSE <<q2, r2>>

\* num * b / den with the fraction discarded (towards zero)
TruncMulDiv(num, b, den) == Sign(num) * MulDivMod(Abs(num), b, den)[1]

\* num * b / den to the nearest integer, halves away from zero
RoundMulDiv(num, b, den) ==
    LET qr == MulDivMod(Abs(num), b, den)
    IN Sign(num) * (qr[1] + (IF 2 * qr[2] >= den THEN 1 ELSE 0))

\* the 16 low bits of v as a signed integer
Wrap16(v) == ((v + 32768) % 65536) - 32768

\* (y * 32767.0).astype(np.int16) with the product rounded to nearest
EncodedRounding(b) == [i \in 1..Len(b.num) |-> Wrap16(RoundMulDiv(b.num[i], PcmScale, b.den))]

\* (y * 32767.0).astype(np.int16): the cast drops the fraction
Encoded(b) == [i \in 1..Len(b.num) |-> Wrap16(TruncMulDiv(b.num[i], PcmScale, b.den))]

\* line 59
Encode ==
    /\ pc = "encode"
    /\ Goto("encode", "write")
    /\ output_data' = Encoded(y)
    /\ SysIdle
    /\ UNCHANGED <<sr, data, x, X, freqs, H, Y, y, fade_len, fade_in, fade_out,
                   peak, mismatch>>

\* line 60
WriteWav ==
    /\ pc = "write"
    /\ Goto("write", "report")
    /\ outFile' = [kind |-> "written", sr |-> sr, data |-> output_data]
    /\ writes' = writes + 1
    /\ UNCHANGED <<nargs, inFile, reads, dsp>>

\* lines 63-66, then main() returns
Report ==
    /\ pc = "report"
    /\ mismatch' = Abs(output_data[1] - output_data[Len(output_data)])
    /\ stdout' = stdout \o <<"generated", "mismatch", "peak">>
    /\ done' = done \cup {"report"}
    /\ exitCode' = 0
    /\ pc' = "exited"
    /\ UNCHANGED raised
    /\ SysIdle
    /\ UNCHANGED <<sr, data, x, X, freqs, H, Y, y, fade_len, fade_in, fade_out,
                   peak, output_data>>

Next ==
    \/ CheckArgs
    \/ ReadWav
    \/ ConvertFloat
    \/ RemoveDC
    \/ ForwardFFT
    \/ BuildCurve
    \/ Attenuate
    \/ InverseFFT
    \/ Fade
    \/ Normalize
    \/ Encode
    \/ WriteWav
    \/ Report

Spec == Init /\ [][Next]_vars

\* ------------------------------------------------------------------ claims
\* the steps that transform the buffer
Transforms == {"convert", "dc", "fft", "curve", "attenuate", "ifft", "fade",
               "normalize", "encode"}

ReadFails == inFile.kind # "wav"

\* C1: when the input container cannot be read, no transform step and no
\* write step ever runs, and no step changes what is at the output path.
C1_ReadFailureLeavesOutput ==
    /\ [](ReadFails => /\ done \cap (Transforms \cup {"write", "report"}) = {}
                       /\ pc \in {"args", "read", "exited"}
                       /\ writes = 0
                       /\ outFile.kind # "written")
    /\ [][ReadFails => outFile' = outFile]_vars

\* C1 witness: a run on a missing input has ended with status 1 and the
\* file that was at the output path is still there.
C1_Witness ==
    /\ pc = "exited"
    /\ inFile.kind = "missing"
    /\ raised = "FileNotFoundError"
    /\ exitCode = 1
    /\ "read" \notin done
    /\ outFile = NoFile("old")

\* C2: with fewer than two path arguments the run prints the usage line and
\* exits with status 1, having read and written nothing; with two or more,
\* a run that ends without an exception exits with status 0 after exactly
\* one write.
C2_UsageAndExitCodes ==
    /\ nargs - 1 < 2 => /\ reads = 0
                        /\ writes = 0
                        /\ outFile.kind # "written"
                        /\ done = {}
                        /\ pc = "exited" => exitCode = 1 /\ stdout = <<"usage">>
    /\ (nargs - 1 >= 2 /\ pc = "exited" /\ raised = "")
           => exitCode = 0 /\ writes = 1 /\ outFile.kind = "written"

\* C2 witness: a run with one path argument has ended on the usage line.
C2_Witness ==
    /\ pc = "exited"
    /\ nargs = 2
    /\ stdout = <<"usage">>
    /\ exitCode = 1
    /\ inFile.kind = "wav"

\* C3: once the curve is built its gain at bin 0 is 0, and once the
\* spectrum is attenuated its bin-0 coefficient is zero, whatever X[0] is.
C3_DcBinZero ==
    /\ "curve" \in done => H[1] = 0
    /\ "attenuate" \in done => Y[1] = [re |-> 0, im |-> 0]

\* C3 witness: the attenuated spectrum of a clip whose X[0] is not zero
\* (the rounded mean leaves a residue), with bins above bin 0.
C3_Witness ==
    /\ "attenuate" \in done
    /\ X[1].re # 0
    /\ Len(Y) > 1
    /\ Y[1] = [re |-> 0, im |-> 0]

AbsSeq(q) == [i \in 1..Len(q) |-> Abs(q[i])]

\* C4: the normalizer step, for a buffer whose peak is not zero, leaves a
\* buffer whose largest magnitude is 49/50, every sample with the sign it
\* had and in the ratio to every other sample it had; a buffer whose peak is
\* zero is left as it was, all zeros.
C4_NormalizerScales ==
    [][pc = "normalize" =>
          IF \E i \in 1..Len(y.num) : y.num[i] # 0
          THEN /\ peak' > 0
               /\ y'.den > 0
               /\ Len(y'.num) = Len(y.num)
               /\ 50 * MaxSeq(AbsSeq(y'.num)) = 49 * y'.den
               /\ \A i \in 1..Len(y.num) : Sign(y'.num[i]) = Sign(y.num[i])
               /\ \A i, j \in 1..Len(y.num) :
                      y'.num[i] * y.num[j] = y'.num[j] * y.num[i]
          ELSE /\ peak' = 0
               /\ y' = y
               /\ \A i \in 1..Len(y'.num) : y'.num[i] = 0]_vars

\* C4 witness: a normalized buffer with samples of both signs and of
\* different magnitudes, its largest magnitude 49/50.
C4_Witness ==
    /\ "normalize" \in done
    /\ peak > 0
    /\ \E i, j, k \in 1..Len(y.num) :
           /\ y.num[i] < 0
           /\ y.num[j] > 0
           /\ 50 * Abs(y.num[k]) = 49 * y.den
           /\ Abs(y.num[i]) # Abs(y.num[j])

\* whether the integer o is v = num * 32767 / den with the fraction dropped
IsTruncation(o, num, den) ==
    /\ Abs(o) * den <= Abs(num) * 32767
    /\ Abs(num) * 32767 < (Abs(o) + 1) * den
    /\ o # 0 => Sign(o) = Sign(num)

\* whether the integer o is the integer nearest to v = num * 32767 / den
IsNearest(o, num, den) ==
    /\ 2 * Abs(Abs(o) * den - Abs(num) * 32767) <= den
    /\ o # 0 => Sign(o) = Sign(num)

\* C5 as stated: every encoded sample is the integer nearest to y * 32767.
C5_EncoderRounds ==
    "encode" \in done =>
        \A i \in 1..Len(output_data) : IsNearest(output_data[i], y.num[i], y.den)

\* C5 amended: every encoded sample is y * 32767 with its fraction dropped,
\* towards zero for positive and for negative y alike.
C5_EncoderTruncates ==
    "encode" \in done =>
        /\ Len(output_data) = Len(y.num)
        /\ \A i \in 1..Len(output_data) :
               IsTruncation(output_data[i], y.num[i], y.den)

\* C5 witness: an encoded buffer with a positive and a negative sample that
\* are not the nearest integers.
C5_Witness ==
    /\ "encode" \in done
    /\ \E i, j \in 1..Len(output_data) :
           /\ y.num[i] > 0 /\ ~IsNearest(output_data[i], y.num[i], y.den)
           /\ y.num[j] < 0 /\ ~IsNearest(output_data[j], y.num[j], y.den)

\* C6 as stated: a run on a clip shorter than the fade window ends without
\* an exception, after the write.
C6_ShortClipReachesWrite ==
    (pc = "exited" /\ "read" \in done /\ Len(data) < (sr * 3) \div 1000)
        => raised = "" /\ "write" \in done

\* C7: after the normalizer no sample exceeds 49/50 in magnitude, and every
\* encoded sample is within -32112..32112 and is the value of the product,
\* not its low 16 bits.
C7_EncodedInRange ==
    /\ "normalize" \in done =>
           \A i \in 1..Len(y.num) : 50 * Abs(y.num[i]) <= 49 * y.den
    /\ "encode" \in done =>
           \A i \in 1..Len(output_data) :
               /\ output_data[i] \in -32112..32112
               /\ IsTruncation(output_data[i], y.num[i], y.den)

\* C7 witness: an encoded buffer that holds the largest magnitude, 32111.
C7_Witness ==
    /\ "encode" \in done
    /\ \E i \in 1..Len(output_data) : Abs(output_data[i]) = 32111

\* C8: the curve has one gain per bin, each between 0 and 1, 0 at bin 0 and
\* never decreasing with the bin; the squared gain is 1/2 at 300 Hz and
\* 256/257 at 600 Hz (to within the rounding of the gain).
C8_CurveShape ==
    "curve" \in done =>
        /\ Len(H) = Len(freqs)
        /\ Len(H) = Len(x.num) \div 2 + 1
        /\ freqs[1] = 0
        /\ \A k \in 2..Len(freqs) : freqs[k - 1] < freqs[k]
        /\ H[1] = 0
        /\ \A k \in 1..Len(H) : 0 <= H[k] /\ H[k] <= 1024
        /\ \A k \in 2..Len(H) : H[k - 1] <= H[k]
        /\ \A k \in 1..Len(H) :
               /\ freqs[k] = 300 * 1024 => Abs(2 * H[k] * H[k] - 1024 * 1024) <= 4096
               /\ freqs[k] = 600 * 1024 =>
                      Abs(257 * H[k] * H[k] - 256 * 1024 * 1024) <= 257 * 4096

\* C8 witness: a curve of three bins with one of them at 600 Hz.
C8_Witness ==
    /\ "curve" \in done
    /\ Len(H) = 3
    /\ freqs[3] = 600 * 1024
    /\ 0 < H[2] /\ H[2] < H[3]

NonDecreasing(q) == \A i \in 2..Len(q) : q[i - 1] <= q[i]
NonIncreasing(q) == \A i \in 2..Len(q) : q[i - 1] >= q[i]

\* the fade step changed nothing outside its two windows, and inside one
\* window only it multiplied by that window's gain
FadeApplied ==
    LET N == Len(y.num)
        before == irfft(Y, N)
    IN \A i \in 1..N :
           /\ (i > fade_len /\ i <= N - fade_len) => y.num[i] = before[i]
           /\ (i <= fade_len /\ i <= N - fade_len)
                  => y.num[i] = MulCoef(before[i], fade_in[i])
           /\ (i > fade_len /\ i > N - fade_len)
                  => y.num[i] = MulCoef(before[i], fade_out[i - (N - fade_len)])

\* C9 as stated: the fade-in gains rise from 0 to 1 and the fade-out gains
\* fall from 1 to 0, and the samples outside both windows are unchanged.
C9_RampsSpanZeroToOne ==
    pc = "normalize" =>
        /\ Len(fade_in) >= 1 /\ Len(fade_out) >= 1
        /\ fade_in[1] = 0 /\ fade_in[Len(fade_in)] = 1024
        /\ NonDecreasing(fade_in)
        /\ fade_out[1] = 1024 /\ fade_out[Len(fade_out)] = 0
        /\ NonIncreasing(fade_out)
        /\ FadeApplied

\* C9 amended: with fade_len >= 2 the fade-in gains rise from 0 to 1 and
\* the fade-out gains fall from 1 to 0; with fade_len = 1 the fade-in gain
\* is the single value 0 and the fade-out gain the single value 1; when the
\* step completes, the samples outside both windows are unchanged.
C9_RampsFromTwoPoints ==
    /\ fade_len >= 2 =>
           /\ Len(fade_in) = fade_len /\ Len(fade_out) = fade_len
           /\ fade_in[1] = 0 /\ fade_in[fade_len] = 1024
           /\ NonDecreasing(fade_in)
           /\ fade_out[1] = 1024 /\ fade_out[fade_len] = 0
           /\ NonIncreasing(fade_out)
    /\ fade_len = 1 => fade_in = <<0>> /\ fade_out = <<1024>>
    /\ pc = "normalize" => FadeApplied

\* C9 witness: a faded buffer of five samples with two-point ramps: the
\* middle sample is outside both windows, and not zero.
C9_Witness ==
    /\ pc = "normalize"
    /\ fade_len = 2
    /\ Len(y.num) = 5
    /\ y.num[3] # 0
    /\ y.num[2] # 0
    /\ y.num[1] = 0 /\ y.num[5] = 0

ConstantClip == Len(data) >= 1 /\ \A i \in 1..Len(data) : data[i] = data[1]

WindowsOverlap == 2 * FadeLen(sr) > Len(data)

\* every sample in both windows is the inverse transform's sample times its
\* fade-in gain, then times its fade-out gain
OverlapCompounded ==
    LET N == Len(y.num)
        before == irfft(Y, N)
    IN \A i \in 1..N :
           (i <= fade_len /\ i > N - fade_len)
               => y.num[i] = MulCoef(MulCoef(before[i],
                                             fade_in[IF fade_len = 1 THEN 1 ELSE i]),
                                     fade_out[IF fade_len = 1 THEN 1
                                              ELSE i - (N - fade_len)])

\* C11 as stated: whenever fade_len exceeds half the buffer length, the
\* fade step completes without an exception, and every sample lying in both
\* windows has been multiplied by its fade-in gain and then by its fade-out
\* gain.
C11_OverlapCompounds ==
    (WindowsOverlap /\ "ifft" \in done /\ pc # "fade") =>
        /\ raised = ""
        /\ "fade" \in done
        /\ pc = "normalize" => OverlapCompounded

\* C12: in a run with 2 <= fade_len <= N the first and the last sample are
\* 0 once the fade step is done and stay 0 through the normalizer, the
\* first and the last encoded sample are 0, and the reported boundary
\* mismatch is 0.
C12_BoundaryMismatchZero ==
    (2 <= fade_len /\ fade_len <= Len(data)) =>
        /\ "fade" \in done => y.num[1] = 0 /\ y.num[Len(y.num)] = 0
        /\ "encode" \in done => /\ output_data[1] = 0
                                /\ output_data[Len(output_data)] = 0
        /\ "report" \in done => mismatch = 0

\* C12 witness: a completed run with a three-point ramp on a clip that is
\* not silent: the peak is not zero, an encoded sample between the two ends
\* is not zero, and the mismatch reported is 0.
C12_Witness ==
    /\ "report" \in done
    /\ fade_len = 3
    /\ fade_len <= Len(data)
    /\ peak > 0
    /\ \E i \in 2..(Len(output_data) - 1) : output_data[i] # 0
    /\ output_data[1] = 0 /\ output_data[Len(output_data)] = 0
    /\ mismatch = 0

\* C13 as stated: when fade_len is 0 the fade step completes without an
\* exception and leaves the buffer as the inverse transform returned it,
\* and the run goes on to the normalizer and to the write of the output.
C13_ZeroFadeIsNoOp ==
    (FadeLen(sr) = 0 /\ "ifft" \in done /\ pc # "fade") =>
        /\ raised = ""
        /\ "fade" \in done
        /\ pc = "normalize" => y.num = irfft(Y, Len(data))
        /\ pc = "exited" => writes = 1 /\ outFile.kind = "written"
====
